---- MODULE Spec2Model ----
(***************************************************************************)
(* tinydb.cpp: the StorageManager page store over one database file.       *)
(*                                                                         *)
(* The file on disk is its size, as a number of whole pages plus a number  *)
(* of bytes beyond them, and the contents of its non-zero pages (a sparse  *)
(* file: bytes never written read as zero).  Sizes and offsets are kept in *)
(* pages because TLC's integers end at 2^31 - 1.  A 4096-byte              *)
(* buffer is a record: `head` is the uint32 in its first four bytes,       *)
(* `body` the byte value that fills the remaining 4092 bytes.              *)
(* The std::fstream is its is_open() flag, its failbit/badbit and the      *)
(* bytes its filebuf holds that a failed flush() did not hand to the OS.   *)
(* The environment decides, per call, whether the underlying write, flush  *)
(* or read fails.                                                          *)
(***************************************************************************)
EXTENDS Integers, Sequences, FiniteSets, TLC

\* ------------------------------------------------------------------------
\* Program constants
\* ------------------------------------------------------------------------
PAGE_SIZE == 4096
MAGIC_NUMBER == 305419896

SUCCESS == 0
FILE_IO_ERROR == 1
PAGE_ALLOCATION_FAILURE == 2
INVALID_INPUT == 3

\* width of uint32_t, the type of PAGE_SIZE, pageNumber and pageCount
UINT32_BITS == 32

\* sizeof(uint32_t)
SIZEOF_UINT32 == 4
\* sizeof(PageHeader): pageType, nextPage, entryCount, packed
SIZEOF_PAGE_HEADER == 3 * SIZEOF_UINT32

\* B-Tree layout constants
KEY_PAIR_SIZE == SIZEOF_UINT32 + SIZEOF_UINT32
MAX_KEYS == (PAGE_SIZE - SIZEOF_PAGE_HEADER - SIZEOF_UINT32) \div KEY_PAIR_SIZE
MAX_RECORDS == MAX_KEYS
MIN_KEYS == MAX_KEYS \div 2

\* bytes of an interior node that holds that many keys: the PageHeader, the
\* keyCount field, the keys and one more child page number than keys
InteriorNodeBytes(keys) ==
    SIZEOF_PAGE_HEADER + SIZEOF_UINT32
        + keys * SIZEOF_UINT32 + (keys + 1) * SIZEOF_UINT32

\* ------------------------------------------------------------------------
\* Bounds of the model
\* ------------------------------------------------------------------------
\* calls made on the StorageManager in one behaviour
MaxOps == 6
\* a small pre-existing file has 0..MaxInitPages pages
MaxInitPages == 2
\* page numbers 0..MaxArg are passed to readPage/writePage/freePage
MaxArg == 1
\* bytes beyond the last whole page in the pre-existing corrupted file
TailBytes == 7

\* 2^32 / PAGE_SIZE: the first page number whose byte offset does not fit
\* in a uint32_t (a file of 4 GiB)
BigPages == (2 ^ (UINT32_BITS - 2)) \div (PAGE_SIZE \div 4)

\* ------------------------------------------------------------------------
\* Buffers
\* ------------------------------------------------------------------------
ZeroPage == [head |-> 0, body |-> 0]
\* char header[PAGE_SIZE] = {0}; memcpy(header, &MAGIC_NUMBER, 4)
HeaderPage == [head |-> MAGIC_NUMBER, body |-> 0]
\* a caller's buffer filled with the byte 0x55
PatternPage == [head |-> 1431655765, body |-> 85]
\* no buffer (an argument a call does not have, or a null pointer)
NoBuf == [head |-> -1, body |-> -1]

Buffers == {ZeroPage, PatternPage}
ArgPages == (0 .. MaxArg) \cup {BigPages}
IoOutcomes == {"ok", "writeErr", "flushErr"}

Max(a, b) == IF a >= b THEN a ELSE b

VARIABLES
    fileExists,   \* the path names a file
    filePages,    \* its size: whole pages,
    fileTail,     \*   and bytes beyond the last whole page (0 .. PAGE_SIZE-1)
    fileData,     \* page index -> contents, for its non-zero pages
    isOpen,       \* file.is_open()
    failed,       \* file.fail(): failbit or badbit is set
    pending,      \* <<[off, buf]>> held by the filebuf after a failed flush
    pageCount,    \* StorageManager::pageCount
    last,         \* the last call and its result (ghost)
    phase,        \* progress of a close, open, readPage sequence (ghost)
    written,      \* page -> buffer of its last writePage that returned SUCCESS (ghost)
    allocated,    \* page numbers returned by allocatePage with SUCCESS (ghost)
    session,      \* since the last open that opened the stream: whether it created
                  \*   the file, its result, the allocatePage calls (ghost)
    faulted,      \* the environment has failed some write, flush or read (ghost)
    nOps,         \* number of calls made
    prog,         \* main(): where it is, what it printed, its exit code
    keyCount      \* keys held by an interior node that is being filled

disk == <<fileExists, filePages, fileTail, fileData>>
stream == <<isOpen, failed, pending>>
ghost == <<last, phase, written, allocated, session, faulted, nOps>>
vars == <<fileExists, filePages, fileTail, fileData, isOpen, failed, pending, pageCount,
          last, phase, written, allocated, session, faulted, nOps, prog, keyCount>>

\* the StorageManager, its file and the record of its calls
store == <<fileExists, filePages, fileTail, fileData, isOpen, failed, pending, pageCount,
           last, phase, written, allocated, session, faulted, nOps>>

\* ------------------------------------------------------------------------
\* The file
\* ------------------------------------------------------------------------
\* contents of the page at index q of a file with the given data
PageOf(data, q) == IF q \in DOMAIN data THEN data[q] ELSE ZeroPage

\* the bytes [n*PAGE_SIZE, n*PAGE_SIZE + PAGE_SIZE) of the file; NoBuf when the file
\* does not hold all of them
DiskPage(n) ==
    IF fileExists /\ n < filePages THEN PageOf(fileData, n) ELSE NoBuf

\* the file as a value
TheFile == [pages |-> filePages, tail |-> fileTail, data |-> fileData]

PutPage(data, q, buf) ==
    IF buf = ZeroPage
    THEN [p \in DOMAIN data \ {q} |-> data[p]]
    ELSE [p \in DOMAIN data \cup {q} |-> IF p = q THEN buf ELSE data[p]]

\* a write that is one byte short of a page
WriteAt_short(f, q, buf) ==
    [pages |-> Max(f.pages, q),
     tail |-> IF q + 1 > f.pages THEN PAGE_SIZE - 1 ELSE f.tail,
     data |-> PutPage(f.data, q, buf)]

\* the OS write of one page at byte offset q * PAGE_SIZE: the file grows
\* to (q + 1) * PAGE_SIZE bytes when it was shorter
WriteAt(f, q, buf) ==
    [pages |-> Max(f.pages, q + 1),
     tail |-> IF q + 1 > f.pages THEN 0 ELSE f.tail,
     data |-> PutPage(f.data, q, buf)]

\* the uint32_t product pageNumber * PAGE_SIZE, in pages:
\* (pageNumber * PAGE_SIZE) mod 2^32 = (pageNumber mod 2^32/PAGE_SIZE) * PAGE_SIZE
PageOffset(pageNumber) == pageNumber % BigPages

\* ------------------------------------------------------------------------
\* StorageManager: the effect of a call on the file and the stream.
\* An effect is [rc, file, failed, pending, fault]: the ErrorCode
\* returned, the file afterwards, the stream afterwards, and whether the
\* environment failed an I/O of the call.
\* ------------------------------------------------------------------------
NoEffect(rc) ==
    [rc |-> rc, file |-> TheFile,
     failed |-> failed, pending |-> pending, fault |-> FALSE]

\* writePage with the range check off by one (pageNumber > pageCount)
writePage_offByOne(count, pageNumber, buffer, io) ==
    IF ~isOpen \/ buffer = NoBuf THEN NoEffect(INVALID_INPUT)
    ELSE IF pageNumber > count THEN NoEffect(INVALID_INPUT)
    ELSE IF failed THEN NoEffect(FILE_IO_ERROR)
    ELSE IF io = "writeErr"
    THEN [NoEffect(FILE_IO_ERROR) EXCEPT !.failed = TRUE, !.fault = TRUE]
    ELSE IF io = "flushErr"
    THEN [NoEffect(SUCCESS) EXCEPT
              !.failed = TRUE, !.fault = TRUE,
              !.pending = <<[off |-> PageOffset(pageNumber), buf |-> buffer]>>]
    ELSE [NoEffect(SUCCESS) EXCEPT
              !.file = WriteAt(TheFile, PageOffset(pageNumber), buffer)]

\* writePage that clears the stream state before it seeks
writePage_clearsError(count, pageNumber, buffer, io) ==
    IF ~isOpen \/ buffer = NoBuf THEN NoEffect(INVALID_INPUT)
    ELSE IF pageNumber >= count THEN NoEffect(INVALID_INPUT)
    ELSE IF io = "writeErr"
    THEN [NoEffect(FILE_IO_ERROR) EXCEPT !.failed = TRUE, !.fault = TRUE]
    ELSE IF io = "flushErr"
    THEN [NoEffect(SUCCESS) EXCEPT
              !.failed = TRUE, !.fault = TRUE,
              !.pending = <<[off |-> PageOffset(pageNumber), buf |-> buffer]>>]
    ELSE [NoEffect(SUCCESS) EXCEPT
              !.failed = FALSE,
              !.file = WriteAt(TheFile, PageOffset(pageNumber), buffer)]

\* ErrorCode writePage(uint32_t pageNumber, const char* buffer), with
\* pageCount = count
writePage(count, pageNumber, buffer, io) ==
    IF ~isOpen \/ buffer = NoBuf THEN NoEffect(INVALID_INPUT)
    ELSE IF pageNumber >= count THEN NoEffect(INVALID_INPUT)
    \* seekp on a stream whose failbit or badbit is set does nothing
    ELSE IF failed THEN NoEffect(FILE_IO_ERROR)
    ELSE IF io = "writeErr"
    THEN [NoEffect(FILE_IO_ERROR) EXCEPT !.failed = TRUE, !.fault = TRUE]
    ELSE IF io = "flushErr"
    \* the result of file.flush() is not looked at
    THEN [NoEffect(SUCCESS) EXCEPT
              !.failed = TRUE, !.fault = TRUE,
              !.pending = <<[off |-> PageOffset(pageNumber), buf |-> buffer]>>]
    ELSE [NoEffect(SUCCESS) EXCEPT
              !.file = WriteAt(TheFile, PageOffset(pageNumber), buffer)]

\* ErrorCode writeZeroPage(uint32_t pageNumber)
writeZeroPage(count, pageNumber, io) == writePage(count, pageNumber, ZeroPage, io)

\* allocatePage that counts the new page twice
allocatePage_doubleIncrement(io) ==
    IF ~isOpen
    THEN [eff |-> NoEffect(FILE_IO_ERROR), pageNumber |-> -1, pageCount |-> pageCount]
    ELSE LET pageNumber == pageCount
             count == pageCount + 2
         IN  [eff |-> writeZeroPage(count, pageNumber, io),
              pageNumber |-> pageNumber, pageCount |-> count]

\* ErrorCode allocatePage(uint32_t& pageNumber): the effect, the page number
\* stored through the reference (-1: nothing stored) and the new pageCount
allocatePage(io) ==
    IF ~isOpen
    THEN [eff |-> NoEffect(FILE_IO_ERROR), pageNumber |-> -1, pageCount |-> pageCount]
    ELSE LET pageNumber == pageCount
             \* ++pageCount (below 2^31 in every state of the model)
             count == pageCount + 1
         IN  [eff |-> writeZeroPage(count, pageNumber, io),
              pageNumber |-> pageNumber, pageCount |-> count]

\* freePage without the range check
freePage_noRangeCheck(pageNumber) ==
    IF ~isOpen THEN FILE_IO_ERROR ELSE SUCCESS

\* ErrorCode freePage(uint32_t pageNumber)
freePage(pageNumber) ==
    IF ~isOpen THEN FILE_IO_ERROR
    ELSE IF pageNumber >= pageCount THEN INVALID_INPUT
    ELSE SUCCESS

\* uint32_t getPageCount() const
getPageCount == pageCount

\* ------------------------------------------------------------------------
\* Ghost bookkeeping
\* ------------------------------------------------------------------------
\* a call: its name, its page number argument, the buffer passed (for
\* readPage the caller's buffer before the call), the ErrorCode returned,
\* the page number allocatePage stored, the buffer readPage filled
Call(op, arg, buf, rc, ret, out) ==
    [op |-> op, arg |-> arg, buf |-> buf, rc |-> rc, ret |-> ret, out |-> out]

NoCall == Call("none", -1, NoBuf, SUCCESS, -1, NoBuf)

\* phase: "closed" after a close() of an open store, "reopened" after an
\* open() that follows it at once and returns SUCCESS, "readback" after a
\* readPage that follows that at once; "-" otherwise
NextPhase(call) ==
    IF call.op = "close" /\ isOpen THEN "closed"
    ELSE IF call.op = "open" /\ call.rc = SUCCESS /\ phase = "closed" THEN "reopened"
    ELSE IF call.op = "readPage" /\ phase = "reopened" THEN "readback"
    ELSE "-"

Record(call) ==
    /\ last' = call
    /\ phase' = NextPhase(call)
    /\ nOps' = nOps + 1

ApplyEffect(eff) ==
    /\ filePages' = eff.file.pages
    /\ fileTail' = eff.file.tail
    /\ fileData' = eff.file.data
    /\ failed' = eff.failed
    /\ pending' = eff.pending
    /\ faulted' = (faulted \/ eff.fault)

\* ------------------------------------------------------------------------
\* Actions: one per public member function of StorageManager
\* ------------------------------------------------------------------------
\* ErrorCode open(const std::string& fname)
OpenCall ==
    /\ nOps < MaxOps
    /\ \/ \* the stream is already open: file.open() sets failbit, is_open()
          \* stays true, tellg() returns -1 and -1 % PAGE_SIZE != 0
          /\ isOpen
          /\ failed' = TRUE
          /\ UNCHANGED <<fileExists, filePages, fileTail, fileData, isOpen, pending, pageCount,
                         session, faulted>>
          /\ Record(Call("open", 0, NoBuf, FILE_IO_ERROR, -1, NoBuf))
       \/ \* existing file: open() succeeds and clears the stream state
          /\ ~isOpen /\ fileExists
          /\ isOpen' = TRUE
          /\ failed' = FALSE
          /\ session' = [fresh |-> FALSE, calls |-> 0, ok |-> TRUE,
                         rc |-> IF fileTail # 0 THEN FILE_IO_ERROR ELSE SUCCESS]
          /\ UNCHANGED <<fileExists, filePages, fileTail, fileData, pending, faulted>>
          /\ IF fileTail # 0
             \* the early return leaves the stream open and pageCount as it was
             THEN /\ UNCHANGED pageCount
                  /\ Record(Call("open", 0, NoBuf, FILE_IO_ERROR, -1, NoBuf))
             ELSE /\ pageCount' = filePages
                  /\ Record(Call("open", 0, NoBuf, SUCCESS, -1, NoBuf))
       \/ \* no such file and it cannot be created
          /\ ~isOpen /\ ~fileExists
          /\ UNCHANGED <<fileExists, filePages, fileTail, fileData, isOpen, failed, pending,
                         pageCount, session, faulted>>
          /\ Record(Call("open", 1, NoBuf, FILE_IO_ERROR, -1, NoBuf))
       \/ \* no such file: create it, reopen it and write the header page
          /\ ~isOpen /\ ~fileExists
          /\ fileExists' = TRUE
          /\ fileTail' = 0
          /\ isOpen' = TRUE
          /\ pageCount' = 1
          /\ session' = [fresh |-> TRUE, calls |-> 0, ok |-> TRUE, rc |-> SUCCESS]
          /\ \E io \in IoOutcomes :
                /\ CASE io = "ok" ->
                          /\ filePages' = 1
                          /\ fileData' = PutPage(<<>>, 0, HeaderPage)
                          /\ failed' = FALSE
                          /\ pending' = <<>>
                     [] io = "writeErr" ->
                          /\ filePages' = 0
                          /\ fileData' = <<>>
                          /\ failed' = TRUE
                          /\ pending' = <<>>
                     [] io = "flushErr" ->
                          /\ filePages' = 0
                          /\ fileData' = <<>>
                          /\ failed' = TRUE
                          /\ pending' = <<[off |-> 0, buf |-> HeaderPage]>>
                /\ faulted' = (faulted \/ io # "ok")
          /\ Record(Call("open", 1, NoBuf, SUCCESS, -1, NoBuf))
    /\ UNCHANGED <<written, allocated>>

Open == OpenCall /\ UNCHANGED <<prog, keyCount>>

\* ErrorCode close(): filebuf::close() tries once more to hand the bytes it
\* still holds to the OS
CloseCall ==
    /\ nOps < MaxOps
    /\ IF isOpen
       THEN /\ isOpen' = FALSE
            /\ pending' = <<>>
            /\ \E flushed \in (IF pending = <<>> THEN {FALSE} ELSE BOOLEAN) :
                  LET f == IF flushed
                           THEN WriteAt(TheFile, pending[1].off, pending[1].buf)
                           ELSE TheFile
                  IN  /\ filePages' = f.pages
                      /\ fileTail' = f.tail
                      /\ fileData' = f.data
            /\ UNCHANGED <<fileExists, failed>>
       ELSE UNCHANGED <<fileExists, filePages, fileTail, fileData, isOpen, failed, pending>>
    /\ Record(Call("close", -1, NoBuf, SUCCESS, -1, NoBuf))
    /\ UNCHANGED <<pageCount, written, allocated, session, faulted>>

Close == CloseCall /\ UNCHANGED <<prog, keyCount>>

\* ErrorCode readPage(uint32_t pageNumber, char* buffer)
ReadPage ==
    /\ nOps < MaxOps
    /\ \E pageNumber \in ArgPages, null \in BOOLEAN, readErr \in BOOLEAN :
          LET off == PageOffset(pageNumber) IN
          /\ null => pageNumber = 0
          /\ IF ~isOpen \/ null
             THEN /\ Record(Call("readPage", pageNumber, IF null THEN NoBuf ELSE ZeroPage,
                                 INVALID_INPUT, -1, NoBuf))
                  /\ UNCHANGED <<failed, faulted>>
                  /\ ~readErr
             ELSE IF pageNumber >= pageCount
             THEN /\ Record(Call("readPage", pageNumber, ZeroPage, INVALID_INPUT, -1, NoBuf))
                  /\ UNCHANGED <<failed, faulted>>
                  /\ ~readErr
             \* seekg on a stream whose failbit or badbit is set does nothing
             ELSE IF failed
             THEN /\ Record(Call("readPage", pageNumber, ZeroPage, FILE_IO_ERROR, -1, NoBuf))
                  /\ UNCHANGED <<failed, faulted>>
                  /\ ~readErr
             ELSE IF readErr
             THEN /\ Record(Call("readPage", pageNumber, ZeroPage, FILE_IO_ERROR, -1, NoBuf))
                  /\ failed' = TRUE
                  /\ faulted' = TRUE
             ELSE IF off + 1 > filePages
             \* short read: eofbit and failbit, SUCCESS, and the rest of the
             \* caller's buffer is whatever it held
             THEN /\ \E garbage \in Buffers :
                        Record(Call("readPage", pageNumber, ZeroPage, SUCCESS, -1, garbage))
                  /\ failed' = TRUE
                  /\ UNCHANGED faulted
             ELSE /\ Record(Call("readPage", pageNumber, ZeroPage, SUCCESS, -1,
                                 PageOf(fileData, off)))
                  /\ UNCHANGED <<failed, faulted>>
    /\ UNCHANGED <<fileExists, filePages, fileTail, fileData, isOpen, pending, pageCount,
                   written, allocated, session, prog, keyCount>>

\* ErrorCode writePage(uint32_t pageNumber, const char* buffer)
WritePage ==
    /\ nOps < MaxOps
    /\ \E pageNumber \in ArgPages, buffer \in Buffers \cup {NoBuf}, io \in IoOutcomes :
          LET eff == writePage(pageCount, pageNumber, buffer, io) IN
          /\ (buffer = NoBuf) => pageNumber = 0
          /\ (io # "ok") => eff.fault
          /\ ApplyEffect(eff)
          /\ written' = IF eff.rc = SUCCESS
                        THEN [p \in DOMAIN written \cup {pageNumber} |->
                                 IF p = pageNumber THEN buffer ELSE written[p]]
                        ELSE written
          /\ Record(Call("writePage", pageNumber, buffer, eff.rc, -1, NoBuf))
    /\ UNCHANGED <<fileExists, isOpen, pageCount, allocated, session, prog, keyCount>>

\* ErrorCode allocatePage(uint32_t& pageNumber)
AllocatePageCall ==
    /\ nOps < MaxOps
    /\ \E io \in IoOutcomes :
          LET a == allocatePage(io) IN
          /\ (io # "ok") => a.eff.fault
          /\ ApplyEffect(a.eff)
          /\ pageCount' = a.pageCount
          /\ allocated' = IF a.eff.rc = SUCCESS
                          THEN allocated \cup {a.pageNumber} ELSE allocated
          /\ written' = IF a.eff.rc = SUCCESS
                        THEN [p \in DOMAIN written \ {a.pageNumber} |-> written[p]]
                        ELSE written
          /\ session' = [session EXCEPT !.calls = @ + 1,
                                        !.ok = @ /\ a.eff.rc = SUCCESS]
          /\ Record(Call("allocatePage", -1, NoBuf, a.eff.rc, a.pageNumber, NoBuf))
    /\ UNCHANGED <<fileExists, isOpen>>

AllocatePage == AllocatePageCall /\ UNCHANGED <<prog, keyCount>>

\* ErrorCode freePage(uint32_t pageNumber)
FreePage ==
    /\ nOps < MaxOps
    /\ \E pageNumber \in ArgPages :
          Record(Call("freePage", pageNumber, NoBuf, freePage(pageNumber), -1, NoBuf))
    /\ UNCHANGED <<fileExists, filePages, fileTail, fileData, isOpen, failed, pending, pageCount,
                   written, allocated, session, faulted, prog, keyCount>>

\* ------------------------------------------------------------------------
\* Initial states: a default-constructed StorageManager, and the path names
\* no file, a well-formed file (header page, then zero pages) of 0 ..
\* MaxInitPages pages or of 4 GiB, or a file with TailBytes extra bytes.
\* ------------------------------------------------------------------------
InitFile(pages, tail) ==
    /\ fileExists = TRUE
    /\ filePages = pages
    /\ fileTail = tail
    /\ fileData = IF pages > 0 THEN PutPage(<<>>, 0, HeaderPage) ELSE <<>>

Init ==
    /\ \/ fileExists = FALSE /\ filePages = 0 /\ fileTail = 0 /\ fileData = <<>>
       \/ \E pages \in (0 .. MaxInitPages) \cup {BigPages} : InitFile(pages, 0)
       \/ InitFile(1, TailBytes)
    /\ isOpen = FALSE
    /\ failed = FALSE
    /\ pending = <<>>
    /\ pageCount = 0
    /\ last = NoCall
    /\ phase = "-"
    /\ written = <<>>
    /\ allocated = {}
    /\ session = [fresh |-> FALSE, calls |-> 0, ok |-> TRUE, rc |-> -1]
    /\ faulted = FALSE
    /\ nOps = 0
    /\ prog = [pc |-> "start", openRc |-> -1, allocRc |-> -1, trace |-> <<>>, exit |-> -1]
    /\ keyCount = 0

Next ==
    \/ Open
    \/ Close
    \/ ReadPage
    \/ WritePage
    \/ AllocatePage
    \/ FreePage

Spec == Init /\ [][Next]_vars

\* ------------------------------------------------------------------------
\* main(): one run of the command-line program on the file
\* ------------------------------------------------------------------------
\* something main() did that can be seen: a call, or a number it printed
Event(ev, v) == [ev |-> ev, v |-> v]

\* main() that does not look at the result of allocatePage
afterAllocate_unchecked(rc) == "allocated"

\* if (auto rc = storage.allocatePage(newPage); rc != ErrorCode::SUCCESS)
afterAllocate(rc) == IF rc # SUCCESS THEN "allocFailed" ELSE "allocated"

\* storage.open(dbFile)
MainOpen ==
    /\ prog.pc = "start"
    /\ OpenCall
    /\ prog' = [prog EXCEPT
                   !.pc = IF last'.rc # SUCCESS THEN "openFailed" ELSE "opened",
                   !.openRc = last'.rc,
                   !.trace = Append(@, Event("open", last'.rc))]
    /\ UNCHANGED keyCount

\* return 1 after a failed open; ~StorageManager() calls close()
MainOpenFailed ==
    /\ prog.pc = "openFailed"
    /\ CloseCall
    /\ prog' = [prog EXCEPT !.pc = "exit", !.exit = 1]
    /\ UNCHANGED keyCount

\* std::cout << "Current page count: " << storage.getPageCount()
MainReportCount ==
    /\ prog.pc = "opened"
    /\ prog' = [prog EXCEPT !.pc = "counted",
                            !.trace = Append(@, Event("count", getPageCount))]
    /\ UNCHANGED <<store, keyCount>>

\* storage.allocatePage(newPage), and "Allocated fresh page number"
MainAllocate ==
    /\ prog.pc = "counted"
    /\ AllocatePageCall
    /\ prog' = [prog EXCEPT
                   !.pc = afterAllocate(last'.rc),
                   !.allocRc = last'.rc,
                   !.trace = IF afterAllocate(last'.rc) = "allocated"
                             THEN Append(@, Event("allocate", last'.ret)) ELSE @]
    /\ UNCHANGED keyCount

\* std::cout << "New page count after allocation: " << storage.getPageCount()
MainReportNewCount ==
    /\ prog.pc = "allocated"
    /\ prog' = [prog EXCEPT !.pc = "recounted",
                            !.trace = Append(@, Event("count", getPageCount))]
    /\ UNCHANGED <<store, keyCount>>

\* storage.close() and return: 1 after a failed allocation, 0 at the end
MainClose ==
    /\ prog.pc \in {"allocFailed", "recounted"}
    /\ CloseCall
    /\ prog' = [prog EXCEPT
                   !.pc = "exit",
                   !.exit = IF prog.pc = "allocFailed" THEN 1 ELSE 0,
                   !.trace = IF prog.pc = "recounted"
                             THEN Append(@, Event("close", last'.rc)) ELSE @]
    /\ UNCHANGED keyCount

\* the program is started again on the same file: StorageManager storage;
\* is a new object, closed, with pageCount 0 and a stream without error
MainStart ==
    /\ prog.pc = "exit"
    /\ nOps < MaxOps
    /\ prog' = [pc |-> "start", openRc |-> -1, allocRc |-> -1, trace |-> <<>>, exit |-> -1]
    /\ isOpen' = FALSE
    /\ failed' = FALSE
    /\ pageCount' = 0
    /\ UNCHANGED <<fileExists, filePages, fileTail, fileData, pending, last, phase,
                   written, allocated, session, faulted, nOps, keyCount>>

MainNext ==
    \/ MainStart
    \/ MainOpen
    \/ MainOpenFailed
    \/ MainReportCount
    \/ MainAllocate
    \/ MainReportNewCount
    \/ MainClose

MainSpec == Init /\ [][MainNext]_vars

\* ------------------------------------------------------------------------
\* An interior node filled up to the limit the code derives
\* ------------------------------------------------------------------------
\* one more key, and its child page number, while keyCount < MAX_KEYS
FillNode ==
    /\ keyCount < MAX_KEYS
    /\ keyCount' = keyCount + 1
    /\ UNCHANGED <<store, prog>>

LayoutNext == FillNode

LayoutSpec == Init /\ [][LayoutNext]_vars

\* ------------------------------------------------------------------------
\* Properties
\* ------------------------------------------------------------------------
\* DiskPage(n) in the next state
DiskPageAfter(n) ==
    IF fileExists' /\ n < filePages' THEN PageOf(fileData', n) ELSE NoBuf

\* the store is open after an open() that returned SUCCESS
Opened == isOpen /\ session.rc = SUCCESS

\* C1: round trip across reopen.  A page number n returned by a successful
\* allocatePage, written by a successful writePage(n, b), reads back as b
\* (readPage(n) returns SUCCESS and fills the buffer with b) after close()
\* and a successful open(), when the environment failed no I/O.
RoundTripAcrossReopen ==
    (/\ phase = "readback"
     /\ last.buf # NoBuf
     /\ ~faulted
     /\ last.arg \in allocated
     /\ last.arg \in DOMAIN written)
        => (last.rc = SUCCESS /\ last.out = written[last.arg])

\* C2: whenever open() of a path that names no file returns SUCCESS,
\* getPageCount() is 1 and the file is exactly one page, the header page
\* (the magic number, then zero bytes).
FreshOpenWritesHeader ==
    (last.op = "open" /\ last.arg = 1 /\ last.rc = SUCCESS)
        => (/\ getPageCount = 1
            /\ filePages = 1 /\ fileTail = 0
            /\ DiskPage(0) = HeaderPage)

\* C3: on a store whose open() created the file, the k-th allocatePage, all
\* of them succeeding, returns page number k and leaves getPageCount() at
\* k + 1.
FreshAllocationsCountUp ==
    (last.op = "allocatePage" /\ session.fresh /\ session.ok)
        => (last.ret = session.calls /\ getPageCount = session.calls + 1)

\* witness of C3: the second successful allocatePage on a created file
FreshAllocationsCountUpWitness ==
    /\ last.op = "allocatePage" /\ last.rc = SUCCESS
    /\ session.fresh /\ session.ok /\ session.calls = 2

\* C4: while the store is open after a successful open(), getPageCount()
\* times PAGE_SIZE is the size of the file, also after a call whose write
\* failed (stated for files below 4 GiB).
PageCountMatchesFileSize ==
    (Opened /\ getPageCount < BigPages)
        => (getPageCount = filePages /\ fileTail = 0)

\* C5: readPage(n) and writePage(n) return INVALID_INPUT whenever
\* n >= pageCount or the stream is not open, and then leave the file and
\* pageCount as they were.
InvalidPageIoRejected ==
    [][(/\ last'.op \in {"readPage", "writePage"}
        /\ (last'.arg >= pageCount \/ ~isOpen))
           => (/\ last'.rc = INVALID_INPUT
               /\ UNCHANGED <<fileExists, filePages, fileTail, fileData, pageCount>>)]_vars

\* witness of C5: a writePage beyond the last page of an open store
InvalidPageIoRejectedWitness ==
    /\ last.op = "writePage" /\ last.buf # NoBuf
    /\ isOpen /\ ~failed
    /\ last.arg >= pageCount
    /\ last.rc = INVALID_INPUT

\* C6: page 0 is never handed out.  After every open() that returns
\* SUCCESS pageCount >= 1, and every allocatePage that returns SUCCESS on
\* such a store returns a page number >= 1 and leaves page 0 as it was.
PageZeroNeverAllocated ==
    [][/\ (last'.op = "open" /\ last'.rc = SUCCESS) => pageCount' >= 1
       /\ (last'.op = "allocatePage" /\ last'.rc = SUCCESS /\ Opened /\ ~faulted')
             => (last'.ret >= 1 /\ DiskPageAfter(0) = DiskPage(0))]_vars

\* C7: a file whose size is no multiple of PAGE_SIZE is fatal.  open()
\* returns FILE_IO_ERROR, every readPage, writePage and allocatePage on
\* the store fails, and the bytes of the file are never modified.
CorruptFileIsFatal ==
    [][(fileExists /\ fileTail # 0)
          => (/\ last'.op = "open" => last'.rc = FILE_IO_ERROR
              /\ last'.op \in {"readPage", "writePage", "allocatePage"}
                    => last'.rc # SUCCESS
              /\ UNCHANGED <<filePages, fileTail, fileData>>)]_vars

\* C8: every write is durable before the call returns.  When writePage
\* returns SUCCESS the page on disk is the buffer, and when allocatePage
\* returns SUCCESS the page on disk is zero (stated for page numbers
\* below 2^32 / PAGE_SIZE).
DurableBeforeReturn ==
    /\ (last.op = "writePage" /\ last.rc = SUCCESS /\ last.arg < BigPages)
          => DiskPage(last.arg) = last.buf
    /\ (last.op = "allocatePage" /\ last.rc = SUCCESS /\ last.ret < BigPages)
          => DiskPage(last.ret) = ZeroPage

\* C9: allocation never reuses a page number.  The page number returned by
\* a successful allocatePage is greater than every page number a
\* successful allocatePage returned before, across freePage calls and
\* close/open cycles (stated for runs in which the environment failed no
\* I/O).
AllocationNeverReuses ==
    [][(last'.op = "allocatePage" /\ last'.rc = SUCCESS /\ ~faulted')
          => \A p \in allocated : last'.ret > p]_vars

\* C10: a successful allocatePage returning n, on a store opened with
\* SUCCESS, grows the file by exactly one page, leaves page n zero on disk
\* and leaves every page m < n as it was (stated for runs in which the
\* environment failed no I/O).
AllocateAppendsZeroPage ==
    [][(last'.op = "allocatePage" /\ last'.rc = SUCCESS /\ Opened /\ ~faulted')
          => (/\ filePages' = filePages + 1
              /\ fileTail' = fileTail
              /\ DiskPageAfter(last'.ret) = ZeroPage
              /\ \A m \in DOMAIN fileData \cup ArgPages :
                    m < last'.ret => DiskPageAfter(m) = DiskPage(m))]_vars

\* C11: when allocatePage cannot extend the file because the write of the
\* new page fails, it returns PAGE_ALLOCATION_FAILURE.
AllocationFailureCode ==
    [][(/\ last'.op = "allocatePage"
        /\ isOpen /\ ~failed
        /\ failed' /\ last'.rc # SUCCESS)
           => last'.rc = PAGE_ALLOCATION_FAILURE]_vars

\* C12: freePage(n) only validates.  On an open store it returns
\* INVALID_INPUT when n >= pageCount and SUCCESS when n < pageCount, it
\* leaves pageCount and the file as they were, and allocatePage on an open
\* store returns the pageCount it finds, whatever was freed.
FreePageOnlyValidates ==
    [][/\ (last'.op = "freePage" /\ isOpen)
             => (/\ last'.rc = (IF last'.arg >= pageCount THEN INVALID_INPUT ELSE SUCCESS)
                 /\ UNCHANGED <<fileExists, filePages, fileTail, fileData, pageCount>>)
       /\ (last'.op = "allocatePage" /\ isOpen /\ last.op = "freePage")
             => last'.ret = pageCount]_vars

\* witness of C12: freePage(n) of an existing page of an open store
\* returned SUCCESS
FreePageOnlyValidatesWitness ==
    /\ last.op = "freePage" /\ last.rc = SUCCESS
    /\ isOpen /\ last.arg < pageCount /\ filePages > last.arg

\* C13: a file that open() created, or whose size is a multiple of
\* PAGE_SIZE, has a size that is a multiple of PAGE_SIZE after every call:
\* every write covers one whole page at a page-aligned offset.
SizeStaysPageMultiple ==
    [][(~fileExists \/ fileTail = 0) => (fileExists' => fileTail' = 0)]_vars

\* witness of C13: allocatePage has extended a file that open() created
SizeStaysPageMultipleWitness ==
    /\ session.fresh /\ last.op = "allocatePage" /\ last.rc = SUCCESS
    /\ filePages = 2 /\ fileTail = 0

\* C15: readPage(n) and writePage(n) with n < pageCount access the bytes
\* [n * PAGE_SIZE, n * PAGE_SIZE + PAGE_SIZE) of the file: after a
\* writePage that returns SUCCESS page n on disk is the buffer, and a
\* readPage that returns SUCCESS fills the buffer with page n on disk
\* (stated for runs in which the environment failed no I/O).
PageIoAddressesOwnPage ==
    /\ (last.op = "writePage" /\ last.rc = SUCCESS /\ ~faulted)
          => DiskPage(last.arg) = last.buf
    /\ (last.op = "readPage" /\ last.rc = SUCCESS /\ ~faulted /\ ~failed)
          => last.out = DiskPage(last.arg)

\* C16: frame of page I/O.  A writePage(n, b) that returns SUCCESS leaves
\* every page other than n, the file size and pageCount as they were, and
\* readPage changes neither the file nor pageCount.
PageIoFrame ==
    [][/\ (last'.op = "writePage" /\ last'.rc = SUCCESS)
             => (/\ UNCHANGED <<fileExists, filePages, fileTail, pageCount>>
                 /\ \A m \in (DOMAIN fileData \cup DOMAIN fileData') \ {last'.arg} :
                       DiskPageAfter(m) = DiskPage(m))
       /\ last'.op = "readPage"
             => UNCHANGED <<fileExists, filePages, fileTail, fileData, pageCount>>]_vars

\* C17 as stated: after a readPage, writePage or allocatePage has returned
\* FILE_IO_ERROR and left the stream failed, the next readPage, writePage
\* or allocatePage on the open store returns FILE_IO_ERROR.
StickyErrorEveryCall ==
    [][(/\ isOpen /\ failed
        /\ last.op \in {"readPage", "writePage", "allocatePage"}
        /\ last.rc = FILE_IO_ERROR
        /\ last'.op \in {"readPage", "writePage", "allocatePage"})
           => last'.rc = FILE_IO_ERROR]_vars

\* C17, amended: while the stream of an open store is failed, every
\* allocatePage and every readPage and writePage with a buffer and a page
\* number below pageCount returns FILE_IO_ERROR and leaves the file as it
\* was (with no buffer or a page number >= pageCount they return
\* INVALID_INPUT), and no call but close() ends the failed state.
StickyErrorValidCalls ==
    [][(isOpen /\ failed)
          => (/\ (\/ last'.op = "allocatePage"
                  \/ /\ last'.op \in {"readPage", "writePage"}
                     /\ last'.buf # NoBuf
                     /\ last'.arg < pageCount)
                    => (/\ last'.rc = FILE_IO_ERROR
                        /\ UNCHANGED <<fileExists, filePages, fileTail, fileData>>)
              /\ (last'.op \in {"readPage", "writePage"}
                  /\ (last'.buf = NoBuf \/ last'.arg >= pageCount))
                    => last'.rc = INVALID_INPUT
              /\ last'.op # "close" => (isOpen' /\ failed'))]_vars

\* witness of C17: a writePage of an existing page returned FILE_IO_ERROR
\* on a store whose earlier allocatePage had failed
StickyErrorValidCallsWitness ==
    /\ last.op = "writePage" /\ last.rc = FILE_IO_ERROR
    /\ isOpen /\ failed /\ ~session.ok
    /\ last.arg < pageCount

\* C18: with MAX_KEYS and MIN_KEYS as the code derives them, an interior
\* node at full occupancy (the PageHeader, keyCount, MAX_KEYS keys and
\* MAX_KEYS + 1 child page numbers) occupies at most PAGE_SIZE bytes.
FullInteriorNodeFitsPage ==
    (keyCount <= MAX_KEYS /\ MIN_KEYS = MAX_KEYS \div 2)
        => InteriorNodeBytes(keyCount) <= PAGE_SIZE

\* C14: a run of the command-line program exits with code 0 exactly when
\* open and allocatePage both returned SUCCESS and with code 1 otherwise,
\* and a run that exits with 0 has done, in this order: open, report page
\* count c, allocate (page c), report page count c + 1, close.
MainExitCodeAndOrder ==
    prog.pc = "exit"
        => (/\ prog.exit = (IF prog.openRc = SUCCESS /\ prog.allocRc = SUCCESS
                            THEN 0 ELSE 1)
            /\ prog.exit = 0
                  => (/\ Len(prog.trace) = 5
                      /\ LET c == prog.trace[2].v
                         IN  prog.trace = <<Event("open", SUCCESS), Event("count", c),
                                            Event("allocate", c), Event("count", c + 1),
                                            Event("close", SUCCESS)>>))

\* witness of C14: a run has ended with exit code 0
MainExitCodeAndOrderWitness ==
    prog.pc = "exit" /\ prog.exit = 0 /\ prog.allocRc = SUCCESS

====
